---- MODULE Spec2Model ----
(***************************************************************************)
(* AI-Paper-Trends: the three-stage pipeline of main.py (fetch, topic      *)
(* model, analyze), the path planner, the fetcher of src/get_papers.py and *)
(* the aggregation of src/analyze.py.                                      *)
(*                                                                         *)
(* Python strings are sequences of one-character strings, so that          *)
(* str.replace, f-string formatting, Path.stem, str.lower and the `in`     *)
(* substring test are computed rather than assumed.                        *)
(***************************************************************************)
EXTENDS Integers, Sequences, FiniteSets, TLC

VARIABLES
    \* ---- main.py: one process running main() again and again
    config,        \* the loaded YAML configuration of the current run
    force_rerun,   \* args.force_rerun of the current run
    fs,            \* the filesystem: existing path -> stamp of the run that wrote it
    pc,            \* position of main(): idle, fetch, topic, tm_body, analyze, done
    run,           \* number of runs started so far
    calls,         \* per run: how often each stage body was invoked
    obs,           \* per run: which data files existed when main() decided a stage,
                   \* and what the stage bodies returned
    report,        \* per run: the messages main() has printed
    \* ---- path derivation on its own (planner, fetcher, topic modeler)
    p_pc, p_config, p_planned, p_fetched, p_modelled,
    \* ---- src/get_papers.py: main on its own
    f_pc, f_input, f_result,
    \* ---- src/analyze.py: create_analysis_dataframe on its own
    a_pc, a_input, a_result

pipeVars == <<config, force_rerun, fs, pc, run, calls, obs, report>>
pathVars == <<p_pc, p_config, p_planned, p_fetched, p_modelled>>
fetchVars == <<f_pc, f_input, f_result>>
anVars == <<a_pc, a_input, a_result>>
vars == <<pipeVars, pathVars, fetchVars, anVars>>

-----------------------------------------------------------------------------
(* Bounds *)
MaxRuns == 2
\* the most notes a query of the remote API returns
MaxPapers == 2
\* the most rows of a processed file
MaxRows == 2

-----------------------------------------------------------------------------
(* Python values *)
None == [t |-> "none"]
PyInt(n) == [t |-> "int", v |-> n]
PyStr(s) == [t |-> "str", s |-> s]
PyList(l) == [t |-> "list", items |-> l]
\* a float with two decimals, held in hundredths
PyFloat(h) == [t |-> "float", hundredths |-> h]
\* pandas' missing value
NaN == [t |-> "nan"]

\* bool(x) for None and int
Truthy(x) == x.t = "int" /\ x.v # 0

DigitChars == <<"0", "1", "2", "3", "4", "5", "6", "7", "8", "9">>

\* str(n) / f"{n}" of a non-negative int
RECURSIVE IntToStr(_)
IntToStr(n) ==
    IF n < 10 THEN <<DigitChars[n + 1]>>
    ELSE IntToStr(n \div 10) \o <<DigitChars[(n % 10) + 1]>>

\* str.replace(old, new) for a one-character old and a string new
RECURSIVE Replace(_, _, _)
Replace(s, old, new) ==
    IF s = <<>> THEN <<>>
    ELSE (IF Head(s) = old THEN new ELSE <<Head(s)>>) \o Replace(Tail(s), old, new)

\* index of the last "." of a file name, 0 if there is none
RECURSIVE LastDot(_, _)
LastDot(s, i) ==
    IF i = 0 THEN 0
    ELSE IF s[i] = "." THEN i ELSE LastDot(s, i - 1)

\* pathlib: PurePath.stem, the final component without its last suffix
Stem(name) ==
    LET i == LastDot(name, Len(name))
    IN  IF i > 1 /\ i < Len(name) THEN SubSeq(name, 1, i - 1) ELSE name

\* pathlib: dir / name
PathJoin(dir, name) == [dir |-> dir, name |-> name]

-----------------------------------------------------------------------------
(* String literals of the sources *)
S_papers == <<"_", "p", "a", "p", "e", "r", "s">>
S_reviews == <<"_", "r", "e", "v", "i", "e", "w", "s">>
S_limit == <<"_", "l", "i", "m", "i", "t">>
S_jsonl == <<".", "j", "s", "o", "n", "l">>
S_with_topics_csv ==
    <<"_", "w", "i", "t", "h", "_", "t", "o", "p", "i", "c", "s", ".", "c", "s", "v">>

data_raw_dir == "data/raw"
data_processed_dir == "data/processed"
\* Path("results") / output_folder_name, with the default folder name
output_dir == "results/default_analysis"

S_bertopic_model_ ==
    <<"b", "e", "r", "t", "o", "p", "i", "c", "_", "m", "o", "d", "e", "l", "_">>
S_top_topics_by_count_png ==
    <<"t", "o", "p", "_", "t", "o", "p", "i", "c", "s", "_", "b", "y", "_", "c", "o", "u", "n", "t", ".", "p", "n", "g">>
S_top_topics_by_rating_png ==
    <<"t", "o", "p", "_", "t", "o", "p", "i", "c", "s", "_", "b", "y", "_", "r", "a", "t", "i", "n", "g", ".", "p", "n", "g">>
S_decision_breakdown_png ==
    <<"d", "e", "c", "i", "s", "i", "o", "n", "_", "b", "r", "e", "a", "k", "d", "o", "w", "n", ".", "p", "n", "g">>
S_summary_table_csv ==
    <<"s", "u", "m", "m", "a", "r", "y", "_", "t", "a", "b", "l", "e", ".", "c", "s", "v">>
S_summary_table_html ==
    <<"s", "u", "m", "m", "a", "r", "y", "_", "t", "a", "b", "l", "e", ".", "h", "t", "m", "l">>

-----------------------------------------------------------------------------
(* Inputs *)
ICLR == <<"I", "C", "L", "R", ".", "c", "c", "/", "2", "0", "2", "4", "/",
          "C", "o", "n", "f", "e", "r", "e", "n", "c", "e">>

ConferenceIds ==
    { ICLR,
      <<"a", ".", "b", "/", "c">>,
      <<"x", "y">>,
      <<"v", "/", ".", ".", "/", "w">> }

Limits == {None, PyInt(0), PyInt(7), PyInt(50), PyInt(120)}

-----------------------------------------------------------------------------
(* main.py: get_expected_filepaths *)
SanitizeConfId(conference_id) ==
    Replace(Replace(conference_id, "/", <<"_">>), ".", <<>>)

\* a planner that appends the limit suffix before the reviews suffix
RawFilenameLimitFirst(conf_id, limit, fetch_reviews) ==
    LET suffix == IF fetch_reviews THEN S_reviews ELSE <<>>
        limit_suffix == IF Truthy(limit) THEN S_limit \o IntToStr(limit.v) ELSE <<>>
    IN  conf_id \o S_papers \o limit_suffix \o suffix \o S_jsonl

RawFilename(conf_id, limit, fetch_reviews) ==
    LET suffix == IF fetch_reviews THEN S_reviews ELSE <<>>
        limit_suffix == IF Truthy(limit) THEN S_limit \o IntToStr(limit.v) ELSE <<>>
    IN  conf_id \o S_papers \o suffix \o limit_suffix \o S_jsonl

get_expected_filepaths(cfg, raw_dir, processed_dir) ==
    LET conf_id == SanitizeConfId(cfg.conference_id)
        raw_path == PathJoin(raw_dir, RawFilename(conf_id, cfg.limit, cfg.fetch_reviews))
        processed_filename == Stem(raw_path.name) \o S_with_topics_csv
    IN  [raw |-> raw_path, processed |-> PathJoin(processed_dir, processed_filename)]

(* src/get_papers.py: main, the output path *)
\* a Fetcher that names its file after every limit that is not None
FetcherOutputPathLimitNotNone(cfg, raw_data_dir) ==
    LET safe_conf_name == Replace(Replace(cfg.conference_id, "/", <<"_">>), ".", <<>>)
        suffix == IF cfg.fetch_reviews THEN S_reviews ELSE <<>>
        limit_suffix ==
            IF cfg.limit # None THEN S_limit \o IntToStr(cfg.limit.v) ELSE <<>>
    IN  PathJoin(raw_data_dir,
                 safe_conf_name \o S_papers \o suffix \o limit_suffix \o S_jsonl)

FetcherOutputPath(cfg, raw_data_dir) ==
    LET safe_conf_name == Replace(Replace(cfg.conference_id, "/", <<"_">>), ".", <<>>)
        suffix == IF cfg.fetch_reviews THEN S_reviews ELSE <<>>
        limit_suffix ==
            IF Truthy(cfg.limit) THEN S_limit \o IntToStr(cfg.limit.v) ELSE <<>>
    IN  PathJoin(raw_data_dir,
                 safe_conf_name \o S_papers \o suffix \o limit_suffix \o S_jsonl)

(* src/run_topic_modeling.py: main, the output path *)
ModelerOutputPath(input_path, processed_data_dir) ==
    LET base_name == Stem(input_path.name)
    IN  PathJoin(processed_data_dir, base_name \o S_with_topics_csv)

-----------------------------------------------------------------------------
(* src/get_papers.py *)

\* what a remote call can do: raise, or return notes
Raises == [t |-> "raise"]
Returns(notes) == [t |-> "ok", notes |-> notes]

S_NA == <<"N", "/", "A">>

BaseKeys == {"id", "title", "abstract", "keywords", "authors"}

\* _extract_paper_data_from_iterator: one dict per note
RECURSIVE _extract_paper_data_from_iterator(_)
_extract_paper_data_from_iterator(notes) ==
    IF notes = <<>> THEN <<>>
    ELSE <<[k \in BaseKeys |->
              CASE k = "id" -> PyStr(Head(notes).id)
                [] k \in {"title", "abstract"} -> PyStr(Head(notes).text)
                [] OTHER -> PyList(<<>>)]>>
         \o _extract_paper_data_from_iterator(Tail(notes))

\* a get_all_papers that gives up when the invitation query raises
get_all_papers_no_fallback_on_raise(primary, fallback) ==
    LET first == IF primary.t = "ok"
                 THEN _extract_paper_data_from_iterator(primary.notes) ELSE <<>>
        second == IF fallback.t = "ok"
                  THEN _extract_paper_data_from_iterator(fallback.notes) ELSE <<>>
    IN  IF first # <<>>
        THEN [papers |-> first, queries |-> <<"invitation">>]
        ELSE IF primary.t = "raise"
        THEN [papers |-> <<>>, queries |-> <<"invitation">>]
        ELSE [papers |-> second, queries |-> <<"invitation", "venueid">>]

\* get_all_papers: the invitation query, then the venue-id query
get_all_papers(primary, fallback) ==
    LET first == IF primary.t = "ok"
                 THEN _extract_paper_data_from_iterator(primary.notes) ELSE <<>>
        second == IF fallback.t = "ok"
                  THEN _extract_paper_data_from_iterator(fallback.notes) ELSE <<>>
    IN  IF first # <<>>
        THEN [papers |-> first, queries |-> <<"invitation">>]
        ELSE [papers |-> second, queries |-> <<"invitation", "venueid">>]

\* re.search(r'^\d+', s): the leading digits of s
RECURSIVE LeadingDigits(_)
LeadingDigits(s) ==
    IF s = <<>> THEN <<>>
    ELSE IF \E d \in 1..10 : DigitChars[d] = Head(s)
         THEN <<Head(s)>> \o LeadingDigits(Tail(s))
         ELSE <<>>

\* int(digits)
RECURSIVE StrToInt(_)
StrToInt(ds) ==
    IF ds = <<>> THEN 0
    ELSE StrToInt(SubSeq(ds, 1, Len(ds) - 1)) * 10
         + ((CHOOSE d \in 1..10 : DigitChars[d] = ds[Len(ds)]) - 1)

RECURSIVE SeqSum(_)
SeqSum(s) == IF s = <<>> THEN 0 ELSE Head(s) + SeqSum(Tail(s))

\* round(np.mean(ratings), 2) in hundredths: round half to even
RoundedMean(ratings) ==
    LET n == Len(ratings)
        num == SeqSum(ratings) * 100
        q == num \div n
        r2 == 2 * (num % n)
    IN  IF r2 < n THEN q
        ELSE IF r2 > n THEN q + 1
        ELSE IF q % 2 = 0 THEN q ELSE q + 1

\* the inner loop over related_notes: (decision, ratings) after the notes
RECURSIVE ScanNotes(_, _, _)
ScanNotes(related_notes, decision, ratings) ==
    IF related_notes = <<>> THEN [decision |-> decision, ratings |-> ratings]
    ELSE LET note == Head(related_notes)
             d == IF note.is_decision_note /\ note.decision.t = "str"
                     /\ note.decision.s # <<>>
                  THEN note.decision.s ELSE decision
             rs == IF ~note.is_review_note THEN ratings
                   ELSE IF note.rating.t = "str"
                        THEN (IF LeadingDigits(note.rating.s) # <<>>
                              THEN Append(ratings, StrToInt(LeadingDigits(note.rating.s)))
                              ELSE ratings)
                   ELSE IF note.rating.t = "int" THEN Append(ratings, note.rating.v)
                   ELSE ratings
         IN  ScanNotes(Tail(related_notes), d, rs)

\* dict update: paper[k] = v for each k of upd
Updated(paper, upd) ==
    [k \in DOMAIN paper \cup DOMAIN upd |-> IF k \in DOMAIN upd THEN upd[k] ELSE paper[k]]

\* the body of the loop of get_rich_paper_details for one paper, given what
\* client.get_notes(forum=paper['id']) does
EnrichOne(paper, lookup) ==
    IF lookup.t = "raise"
    THEN [paper |-> paper,
          events |-> <<[e |-> "get_notes", forum |-> paper["id"].s]>>]
    ELSE LET got == ScanNotes(lookup.notes, S_NA, <<>>)
         IN  [paper |->
                Updated(paper,
                    [decision |-> PyStr(got.decision),
                     review_ratings |-> PyList(got.ratings),
                     avg_rating |-> IF got.ratings # <<>>
                                    THEN PyFloat(RoundedMean(got.ratings)) ELSE None]),
              events |-> <<[e |-> "get_notes", forum |-> paper["id"].s],
                           [e |-> "sleep", forum |-> paper["id"].s]>>]

\* get_rich_paper_details: lookups[i] is the outcome of the i-th lookup
RECURSIVE get_rich_paper_details(_, _)
get_rich_paper_details(submissions, lookups) ==
    IF submissions = <<>> THEN [papers |-> <<>>, events |-> <<>>]
    ELSE LET one == EnrichOne(Head(submissions), Head(lookups))
             rest == get_rich_paper_details(Tail(submissions), Tail(lookups))
         IN  [papers |-> <<one.paper>> \o rest.papers,
              events |-> one.events \o rest.events]

\* pd.DataFrame(list of dicts): the union of the keys, NaN where a dict lacks one
DataFrame(dicts) ==
    LET columns == UNION {DOMAIN dicts[i] : i \in 1..Len(dicts)}
    IN  [columns |-> columns,
         rows |-> [i \in 1..Len(dicts) |->
                     [c \in columns |->
                        IF c \in DOMAIN dicts[i] THEN dicts[i][c] ELSE NaN]]]

Min(a, b) == IF a < b THEN a ELSE b

\* a Fetcher that opens its output file before it knows whether it has papers
get_papers_main_writing_first(cfg, raw_data_dir, primary, fallback, lookups) ==
    LET got == get_all_papers(primary, fallback)
        output_path == FetcherOutputPath(cfg, raw_data_dir)
        rich == IF cfg.fetch_reviews
                THEN get_rich_paper_details(got.papers, lookups)
                ELSE [papers |-> got.papers, events |-> <<>>]
    IN  [returned |-> IF got.papers = <<>> THEN None ELSE output_path,
         wrote |-> TRUE, path |-> output_path, df |-> DataFrame(rich.papers),
         queries |-> got.queries, events |-> rich.events]

\* get_papers.main: what it returns, what it writes where, what it asked the API
get_papers_main(cfg, raw_data_dir, primary, fallback, lookups) ==
    LET got == get_all_papers(primary, fallback)
        submissions_data == got.papers
    IN  IF submissions_data = <<>>
        THEN [returned |-> None, wrote |-> FALSE, queries |-> got.queries,
              events |-> <<>>]
        ELSE LET limited ==
                     IF Truthy(cfg.limit) /\ cfg.limit.v > 0
                     THEN SubSeq(submissions_data, 1,
                                 Min(cfg.limit.v, Len(submissions_data)))
                     ELSE submissions_data
                 rich == IF cfg.fetch_reviews
                         THEN get_rich_paper_details(limited, lookups)
                         ELSE [papers |-> limited, events |-> <<>>]
                 output_path == FetcherOutputPath(cfg, raw_data_dir)
             IN  [returned |-> output_path, wrote |-> TRUE, path |-> output_path,
                  df |-> DataFrame(rich.papers), queries |-> got.queries,
                  events |-> rich.events]

-----------------------------------------------------------------------------
(* src/analyze.py: create_analysis_dataframe *)

UpperCase == <<"A", "B", "C", "D", "E", "F", "G", "H", "I", "J", "K", "L", "M",
               "N", "O", "P", "Q", "R", "S", "T", "U", "V", "W", "X", "Y", "Z">>
LowerCase == <<"a", "b", "c", "d", "e", "f", "g", "h", "i", "j", "k", "l", "m",
               "n", "o", "p", "q", "r", "s", "t", "u", "v", "w", "x", "y", "z">>

\* str.lower
Lower(s) ==
    [i \in 1..Len(s) |->
        IF \E u \in 1..26 : UpperCase[u] = s[i]
        THEN LowerCase[CHOOSE u \in 1..26 : UpperCase[u] = s[i]]
        ELSE s[i]]

\* sub in s
Contains(s, sub) ==
    \E i \in 0..(Len(s) - Len(sub)) : SubSeq(s, i + 1, i + Len(sub)) = sub

\* str(x) of a cell of the decision column
Str(x) ==
    CASE x.t = "str" -> x.s
      [] x.t = "nan" -> <<"n", "a", "n">>
      [] x.t = "none" -> <<"N", "o", "n", "e">>

S_oral == <<"o", "r", "a", "l">>
S_spotlight == <<"s", "p", "o", "t", "l", "i", "g", "h", "t">>
S_poster_lc == <<"p", "o", "s", "t", "e", "r">>
S_reject == <<"r", "e", "j", "e", "c", "t">>

decision_types == <<"Oral", "Spotlight", "Poster", "Reject", "N/A">>

\* clean_decision
clean_decision(decision_str) ==
    LET d == Lower(Str(decision_str))
    IN  IF Contains(d, S_oral) THEN "Oral"
        ELSE IF Contains(d, S_spotlight) THEN "Spotlight"
        ELSE IF Contains(d, S_poster_lc) THEN "Poster"
        ELSE IF Contains(d, S_reject) THEN "Reject"
        ELSE "N/A"

\* Series.count(): the cells of `column` that are not missing, among the rows
\* of `rows` at the indices `group`
CountOf(rows, column, group) ==
    Cardinality({i \in group : rows[i][column] # NaN})

\* a quotient of two counts, as pandas' true division gives it
Quotient(a, b) ==
    IF b = 0 THEN NaN ELSE [t |-> "ratio", num |-> a, den |-> b]

\* Series.fillna(0) on one cell
FillNa0(x) == IF x = NaN THEN [t |-> "ratio", num |-> 0, den |-> 1] ELSE x

\* an acceptance rate whose denominator leaves the undecided papers out
AcceptanceRateOfDecided(agg) ==
    LET accepted_papers == agg["Oral"] + agg["Spotlight"] + agg["Poster"]
        total_papers_in_scope == accepted_papers + agg["Reject"]
    IN  FillNa0(Quotient(accepted_papers, total_papers_in_scope))

\* lines 41-43
AcceptanceRate(agg) ==
    LET accepted_papers == agg["Oral"] + agg["Spotlight"] + agg["Poster"]
        total_papers_in_scope == accepted_papers + agg["Reject"] + agg["N/A"]
    IN  FillNa0(Quotient(accepted_papers, total_papers_in_scope))

\* Series.mean() of the avg_rating cells that are not missing, then fillna(0)
MeanRating(rows, idx) ==
    LET rated == {i \in idx : rows[i]["avg_rating"] # NaN}
        RECURSIVE Sum(_)
        Sum(S) == IF S = {} THEN 0
                  ELSE LET i == CHOOSE j \in S : TRUE
                       IN  rows[i]["avg_rating"].hundredths + Sum(S \ {i})
    IN  FillNa0(Quotient(Sum(rated), 100 * Cardinality(rated)))

S_Topic_ == <<"T", "o", "p", "i", "c", " ">>

\* f"Topic {x}" for a topic id >= 0
TopicName(topic, topic_labels) ==
    IF topic \in DOMAIN topic_labels THEN topic_labels[topic]
    ELSE S_Topic_ \o IntToStr(topic)

\* sort_values(by='paper_count', ascending=False) of the per-topic rows, which
\* groupby leaves in ascending Topic order; equal counts keep that order
SortedTopics(topics, paper_count) ==
    LET Before(a, b) == \/ paper_count[a] > paper_count[b]
                        \/ paper_count[a] = paper_count[b] /\ a < b
        Rank(a) == 1 + Cardinality({b \in topics : Before(b, a)})
    IN  [k \in 1..Cardinality(topics) |-> CHOOSE a \in topics : Rank(a) = k]

create_analysis_dataframe(df_with_topics, topic_labels) ==
    LET all == df_with_topics.rows
        df == SelectSeq(all, LAMBDA r : r["Topic"] # -1)
    IN  IF df = <<>> THEN [status |-> "empty", removed |-> Len(all)]
        ELSE IF "decision" \notin df_with_topics.columns
        THEN [status |-> "KeyError", key |-> "decision"]
        ELSE IF "avg_rating" \notin df_with_topics.columns
        THEN [status |-> "KeyError", key |-> "avg_rating"]
        ELSE
        LET clean == [i \in 1..Len(df) |-> clean_decision(df[i]["decision"])]
            topics == {df[i]["Topic"] : i \in 1..Len(df)}
            InTopic(t) == {i \in 1..Len(df) : df[i]["Topic"] = t}
            paper_count == [t \in topics |-> CountOf(df, "id", InTopic(t))]
            Counts(t) ==
                [c \in {decision_types[k] : k \in 1..5} |->
                    CountOf(df, "id", {i \in InTopic(t) : clean[i] = c})]
            Row(t) ==
                [Topic |-> t,
                 Topic_Name |-> TopicName(t, topic_labels),
                 paper_count |-> paper_count[t],
                 avg_rating |-> MeanRating(df, InTopic(t)),
                 acceptance_rate |-> AcceptanceRate(Counts(t)),
                 counts |-> Counts(t)]
            order == SortedTopics(topics, paper_count)
        IN  [status |-> "ok",
             removed |-> Len(all) - Len(df),
             clean_decision |-> clean,
             analysis_df |-> [k \in 1..Len(order) |-> Row(order[k])]]

-----------------------------------------------------------------------------
(* The filesystem *)
Exists(path) == path \in DOMAIN fs

\* the filesystem after `path` is created or overwritten with `stamp`
Written(files, path, stamp) ==
    [q \in DOMAIN files \cup {path} |-> IF q = path THEN stamp ELSE files[q]]

Removed(files, path) == [q \in DOMAIN files \ {path} |-> files[q]]

\* the filesystem after every path of `paths` is created or overwritten
WrittenAll(files, paths, stamp) ==
    [q \in DOMAIN files \cup paths |-> IF q \in paths THEN stamp ELSE files[q]]

\* the files under data/raw and data/processed, each with its stamp
DataFiles(files) ==
    [q \in {r \in DOMAIN files : r.dir \in {data_raw_dir, data_processed_dir}}
        |-> files[q]]

-----------------------------------------------------------------------------
(* main.py: main, one run after the other *)

PipelineConfigs ==
    [conference_id : {ICLR},
     limit : {None, PyInt(50)},
     fetch_reviews : {TRUE},
     topic_modeling_enabled : BOOLEAN,
     analysis_enabled : BOOLEAN]

NoConfig == [conference_id |-> <<>>, limit |-> None, fetch_reviews |-> FALSE,
             topic_modeling_enabled |-> FALSE, analysis_enabled |-> FALSE]

NoCalls == [fetcher |-> 0, topic_modeler |-> 0, analyzer |-> 0]
NoObs == [raw_at_fetch |-> "unset", fetcher_returned |-> "unset",
          processed_at_topic |-> "unset", raw_at_topic |-> "unset",
          topic_modeler_returned |-> "unset", processed_at_analyze |-> "unset"]
ReturnedWhat(res) == IF res.returned = None THEN "none" ELSE "path"
Seen(b) == IF b THEN "yes" ELSE "no"

\* what the remote API may answer in a run of the pipeline
OneNote == <<[id |-> <<"p", "1">>, text |-> <<"t">>]>>
PipelineOutcomes == {Raises, Returns(<<>>), Returns(OneNote)}

raw_data_path == get_expected_filepaths(config, data_raw_dir, data_processed_dir).raw
processed_data_path ==
    get_expected_filepaths(config, data_raw_dir, data_processed_dir).processed

\* a fetch stage that forgets --force-rerun
FetchCachedIgnoringForce == Exists(raw_data_path)

\* line 57: not args.force_rerun and raw_data_path.exists()
FetchCached == ~force_rerun /\ Exists(raw_data_path)

\* a stage whose failure goes unnoticed
StageNeverFailed(returned_path) == FALSE

\* lines 63, 83: not returned_path
StageFailed(returned_path) == returned_path = None

\* a topic stage that tests the raw file for its cache hit
TopicCachedOnRaw == ~force_rerun /\ Exists(raw_data_path)

\* line 71: not args.force_rerun and processed_data_path.exists()
TopicCached == ~force_rerun /\ Exists(processed_data_path)

\* line 76: not raw_data_path.exists()
TopicInputMissing == ~Exists(raw_data_path)

\* an analysis stage with the skip logic of the other two stages
AnalysisInputPresentUnlessForced == ~force_rerun /\ Exists(processed_data_path)

\* line 93: processed_data_path.exists()
AnalysisInputPresent == Exists(processed_data_path)

\* python main.py --config ... [--force-rerun], up to line 53
StartRun ==
    /\ pc \in {"idle", "done"}
    /\ run < MaxRuns
    /\ \E cfg \in PipelineConfigs, force \in BOOLEAN :
          /\ config' = cfg
          /\ force_rerun' = force
    /\ run' = run + 1
    /\ calls' = NoCalls
    /\ obs' = NoObs
    /\ report' = {}
    /\ pc' = "fetch"
    /\ UNCHANGED fs
    /\ UNCHANGED <<pathVars, fetchVars, anVars>>

\* Step 1: Data Fetching
FetchStage ==
    /\ pc = "fetch"
    /\ IF FetchCached
       THEN /\ obs' = [obs EXCEPT !.raw_at_fetch = Seen(Exists(raw_data_path))]
            /\ report' = report \cup {"skipping data fetching", "Data Fetching Complete"}
            /\ pc' = "topic"
            /\ UNCHANGED <<fs, calls>>
       ELSE \E primary \in PipelineOutcomes, fallback \in PipelineOutcomes,
               lookup \in {Raises, Returns(<<>>)} :
              LET res == get_papers_main(config, data_raw_dir, primary, fallback,
                                         <<lookup>>)
              IN  /\ obs' = [obs EXCEPT !.raw_at_fetch = Seen(Exists(raw_data_path)),
                                         !.fetcher_returned = ReturnedWhat(res)]
                  /\ calls' = [calls EXCEPT !.fetcher = @ + 1]
                  /\ fs' = IF res.wrote THEN Written(fs, res.path, run) ELSE fs
                  /\ IF StageFailed(res.returned)
                     THEN /\ report' = report \cup {"Data fetching failed"}
                          /\ pc' = "done"
                     ELSE /\ report' = report \cup {"Data Fetching Complete"}
                          /\ pc' = "topic"
    /\ UNCHANGED <<config, force_rerun, run>>
    /\ UNCHANGED <<pathVars, fetchVars, anVars>>

\* Step 2: Topic Modeling, up to the call of run_topic_modeling.main
TopicStage ==
    /\ pc = "topic"
    /\ IF config.topic_modeling_enabled
       THEN /\ obs' = [obs EXCEPT !.processed_at_topic = Seen(Exists(processed_data_path)),
                                  !.raw_at_topic =
                                      Seen(Exists(raw_data_path))]
            /\ IF TopicCached
               THEN /\ report' = report \cup {"skipping topic modeling",
                                              "Topic Modeling Complete"}
                    /\ pc' = "analyze"
               ELSE IF TopicInputMissing
               THEN /\ report' = report \cup {"Cannot perform topic modeling"}
                    /\ pc' = "done"
               ELSE /\ report' = report
                    /\ pc' = "tm_body"
       ELSE /\ report' = report \cup {"Topic modeling is disabled",
                                      "Topic Modeling Complete"}
            /\ pc' = "analyze"
            /\ obs' = obs
    /\ UNCHANGED <<config, force_rerun, fs, run, calls>>
    /\ UNCHANGED <<pathVars, fetchVars, anVars>>

\* run_topic_modeling.main, line 76: where the fitted model is saved
ModelArtifactPath(input_path, out_dir) ==
    PathJoin(out_dir, S_bertopic_model_ \o Stem(input_path.name))

\* run_topic_modeling.main: None when the input is gone, else the written path
run_topic_modeling_main(input_path, processed_data_dir, out_dir) ==
    IF ~Exists(input_path)
    THEN [returned |-> None, wrote |-> FALSE]
    ELSE [returned |-> ModelerOutputPath(input_path, processed_data_dir),
          wrote |-> TRUE,
          model_path |-> ModelArtifactPath(input_path, out_dir),
          path |-> ModelerOutputPath(input_path, processed_data_dir)]

\* Step 2, the call of run_topic_modeling.main and the test of what it returned
TopicModelerBody ==
    /\ pc = "tm_body"
    /\ LET res == run_topic_modeling_main(raw_data_path, data_processed_dir,
                                          output_dir)
       IN  /\ obs' = [obs EXCEPT !.topic_modeler_returned = ReturnedWhat(res)]
           /\ calls' = [calls EXCEPT !.topic_modeler = @ + 1]
           /\ fs' = IF res.wrote
                    THEN Written(Written(fs, res.model_path, run), res.path, run)
                    ELSE fs
           /\ IF StageFailed(res.returned)
              THEN /\ report' = report \cup {"Topic modeling failed"}
                   /\ pc' = "done"
              ELSE /\ report' = report \cup {"Topic Modeling Complete"}
                   /\ pc' = "analyze"
    /\ UNCHANGED <<config, force_rerun, run>>
    /\ UNCHANGED <<pathVars, fetchVars, anVars>>

\* analyze.main, lines 167-177: the charts and tables of the configured tasks
AnalyzerOutputs(out_dir) ==
    {PathJoin(out_dir, name) :
        name \in {S_top_topics_by_count_png, S_top_topics_by_rating_png,
                  S_decision_breakdown_png, S_summary_table_csv,
                  S_summary_table_html}}

\* analyze.main: the files it writes; none when it raises or has no valid data
analyze_main(out_dir, completed) ==
    IF completed THEN AnalyzerOutputs(out_dir) ELSE {}

\* Step 3: Analysis and Visualization; analyze.main returns or raises
AnalyzeStage ==
    /\ pc = "analyze"
    /\ IF config.analysis_enabled
       THEN /\ obs' = [obs EXCEPT !.processed_at_analyze =
                                      Seen(Exists(processed_data_path))]
            /\ IF AnalysisInputPresent
               THEN /\ calls' = [calls EXCEPT !.analyzer = @ + 1]
                    /\ \E raised \in BOOLEAN, completed \in BOOLEAN :
                          /\ raised => ~completed
                          /\ fs' = WrittenAll(fs, analyze_main(output_dir, completed),
                                              run)
                          /\ report' =
                                report \cup {"[Step 3/3] Analysis and Visualization"}
                                  \cup (IF raised THEN {"Traceback"}
                                        ELSE {"Analysis and Visualization Complete",
                                              "All processes completed successfully"})
               ELSE /\ calls' = calls
                    /\ fs' = fs
                    /\ report' = report \cup {"[Step 3/3] Analysis and Visualization",
                                              "Cannot perform analysis",
                                              "Analysis and Visualization Complete",
                                              "All processes completed successfully"}
       ELSE /\ obs' = obs
            /\ calls' = calls
            /\ fs' = fs
            /\ report' = report \cup {"Analysis and visualization is disabled",
                                      "Analysis and Visualization Complete",
                                      "All processes completed successfully"}
    /\ pc' = "done"
    /\ UNCHANGED <<config, force_rerun, run>>
    /\ UNCHANGED <<pathVars, fetchVars, anVars>>

\* the environment: somebody removes a data file while or between runs
ExternalDelete ==
    /\ \E path \in DOMAIN DataFiles(fs) : fs' = Removed(fs, path)
    /\ UNCHANGED <<config, force_rerun, pc, run, calls, obs, report>>
    /\ UNCHANGED <<pathVars, fetchVars, anVars>>

PipelineInit ==
    /\ config = NoConfig
    /\ force_rerun = FALSE
    /\ fs = <<>>
    /\ pc = "idle"
    /\ run = 0
    /\ calls = NoCalls
    /\ obs = NoObs
    /\ report = {}

PathIdle ==
    /\ p_pc = "off"
    /\ p_config = NoConfig
    /\ p_planned = <<>>
    /\ p_fetched = <<>>
    /\ p_modelled = <<>>

FetchIdle ==
    /\ f_pc = "off"
    /\ f_input = <<>>
    /\ f_result = <<>>

AnalyzeIdle ==
    /\ a_pc = "off"
    /\ a_input = <<>>
    /\ a_result = <<>>

Init == PipelineInit /\ PathIdle /\ FetchIdle /\ AnalyzeIdle

Next ==
    \/ StartRun
    \/ FetchStage
    \/ TopicStage
    \/ TopicModelerBody
    \/ AnalyzeStage
    \/ ExternalDelete

Spec == Init /\ [][Next]_vars

-----------------------------------------------------------------------------
(* src/get_papers.py: main for every answer of the remote API *)

\* k notes with ids <prefix>1 .. <prefix>k
NotesOf(prefix, k) ==
    [i \in 1..k |-> [id |-> <<prefix, DigitChars[i + 1]>>, text |-> <<"t">>]]

PrimaryOutcomes == {Raises} \cup {Returns(NotesOf("p", k)) : k \in 0..MaxPapers}
FallbackOutcomes == {Raises} \cup {Returns(NotesOf("v", k)) : k \in 0..MaxPapers}

S_poster == <<"A", "c", "c", "e", "p", "t", " ", "(", "p", "o", "s", "t", "e", "r", ")">>

\* the notes of a forum: a decision and two reviews
ReviewedForum ==
    <<[is_decision_note |-> TRUE, decision |-> PyStr(S_poster),
       is_review_note |-> FALSE, rating |-> None],
      [is_decision_note |-> FALSE, decision |-> None,
       is_review_note |-> TRUE, rating |-> PyStr(<<"8", ":", " ", "a">>)],
      [is_decision_note |-> FALSE, decision |-> None,
       is_review_note |-> TRUE, rating |-> PyInt(5)]>>

LookupOutcomes == {Raises, Returns(<<>>), Returns(ReviewedForum)}

FetchInputs ==
    [cfg : [conference_id : {ICLR},
            limit : {None, PyInt(0), PyInt(1), PyInt(2)},
            fetch_reviews : BOOLEAN],
     primary : PrimaryOutcomes,
     fallback : FallbackOutcomes,
     lookups : [1..MaxPapers -> LookupOutcomes]]

FetchInit ==
    /\ f_pc = "called"
    /\ f_input \in FetchInputs
    /\ f_result = <<>>

\* get_papers.main(config, raw_data_dir) from its call to its return
Fetch ==
    /\ f_pc = "called"
    /\ f_result' = get_papers_main(f_input.cfg, data_raw_dir, f_input.primary,
                                   f_input.fallback, f_input.lookups)
    /\ f_pc' = "returned"
    /\ UNCHANGED f_input
    /\ UNCHANGED <<pipeVars, pathVars, anVars>>

InitFetch == PipelineInit /\ PathIdle /\ FetchInit /\ AnalyzeIdle

NextFetch == Fetch

SpecFetch == InitFetch /\ [][NextFetch]_vars

-----------------------------------------------------------------------------
(* src/analyze.py: create_analysis_dataframe for every processed file *)

S_overturned ==
    <<"O", "r", "a", "l", " ", "(", "R", "e", "j", "e", "c", "t", " ",
      "a", "p", "p", "e", "a", "l", " ", "o", "v", "e", "r", "t", "u", "r", "n", "e", "d", ")">>
S_Spotlight == <<"A", "c", "c", "e", "p", "t", " ", "(", "S", "p", "o", "t", "l", "i", "g", "h", "t", ")">>
S_REJECT == <<"R", "E", "J", "E", "C", "T">>
S_Withdrawn == <<"W", "i", "t", "h", "d", "r", "a", "w", "n">>

\* the cells of a decision column as pd.read_csv hands them over
DecisionCells ==
    {PyStr(S_overturned), PyStr(S_Spotlight), PyStr(S_poster), PyStr(S_REJECT),
     PyStr(S_Withdrawn), NaN}

TopicIds == {-1, 0, 1}
IdCells == {PyStr(<<"p">>), NaN}

\* rows of a file fetched with reviews, and of one fetched without
EnrichedRows ==
    {[Topic |-> t, id |-> i, decision |-> d,
      avg_rating |-> IF d = NaN THEN NaN ELSE PyFloat(650)] :
        t \in TopicIds, i \in IdCells, d \in DecisionCells}
PlainRows == [Topic : TopicIds, id : IdCells]

SeqsUpTo(S, n) == UNION {[1..k -> S] : k \in 0..n}

ProcessedFiles ==
    {[columns |-> {"Topic", "id", "decision", "avg_rating"}, rows |-> rows] :
        rows \in SeqsUpTo(EnrichedRows, MaxRows)}
    \cup {[columns |-> {"Topic", "id"}, rows |-> rows] :
              rows \in SeqsUpTo(PlainRows, MaxRows)}

S_LLMs == <<"L", "L", "M", "s">>
TopicLabels == {<<>>, [t \in {0} |-> S_LLMs]}

AnalyzeInit ==
    /\ a_pc = "called"
    /\ a_input \in [df_with_topics : ProcessedFiles, topic_labels : TopicLabels]
    /\ a_result = <<>>

\* analyze.main line 158
Analyze ==
    /\ a_pc = "called"
    /\ a_result' = create_analysis_dataframe(a_input.df_with_topics,
                                             a_input.topic_labels)
    /\ a_pc' = "returned"
    /\ UNCHANGED a_input
    /\ UNCHANGED <<pipeVars, pathVars, fetchVars>>

InitAnalyze == PipelineInit /\ PathIdle /\ FetchIdle /\ AnalyzeInit

NextAnalyze == Analyze

SpecAnalyze == InitAnalyze /\ [][NextAnalyze]_vars

-----------------------------------------------------------------------------
(* Path derivation for every configuration: the planner, then the path the *)
(* fetcher writes, then the path the topic modeler writes                  *)

PathConfigs ==
    [conference_id : ConferenceIds, limit : Limits, fetch_reviews : BOOLEAN]

PathInit ==
    /\ p_pc = "config"
    /\ p_config \in PathConfigs
    /\ p_planned = <<>>
    /\ p_fetched = <<>>
    /\ p_modelled = <<>>

\* main.py line 51
Plan ==
    /\ p_pc = "config"
    /\ p_planned' = get_expected_filepaths(p_config, data_raw_dir, data_processed_dir)
    /\ p_pc' = "planned"
    /\ UNCHANGED <<p_config, p_fetched, p_modelled>>
    /\ UNCHANGED <<pipeVars, fetchVars, anVars>>

\* get_papers.main lines 107-116, called with raw_data_dir=data_raw_dir
FetcherWrites ==
    /\ p_pc = "planned"
    /\ p_fetched' = FetcherOutputPath(p_config, data_raw_dir)
    /\ p_pc' = "fetched"
    /\ UNCHANGED <<p_config, p_planned, p_modelled>>
    /\ UNCHANGED <<pipeVars, fetchVars, anVars>>

\* run_topic_modeling.main lines 74-86, called with input_path=raw_data_path
ModelerWrites ==
    /\ p_pc = "fetched"
    /\ p_modelled' = ModelerOutputPath(p_planned.raw, data_processed_dir)
    /\ p_pc' = "modelled"
    /\ UNCHANGED <<p_config, p_planned, p_fetched>>
    /\ UNCHANGED <<pipeVars, fetchVars, anVars>>

InitPaths == PipelineInit /\ PathInit /\ FetchIdle /\ AnalyzeIdle

NextPaths ==
    \/ Plan
    \/ FetcherWrites
    \/ ModelerWrites

SpecPaths == InitPaths /\ [][NextPaths]_vars

-----------------------------------------------------------------------------
(* Runs of main() on a configuration whose paths were derived, with nobody
   removing files *)

\* python main.py --config ... [--force-rerun] on p_config, up to line 53
StartPlannedRun ==
    /\ p_pc = "modelled"
    /\ pc \in {"idle", "done"}
    /\ run < MaxRuns
    /\ \E topic_modeling \in BOOLEAN, analysis \in BOOLEAN, force \in BOOLEAN :
          /\ config' = [conference_id |-> p_config.conference_id,
                        limit |-> p_config.limit,
                        fetch_reviews |-> p_config.fetch_reviews,
                        topic_modeling_enabled |-> topic_modeling,
                        analysis_enabled |-> analysis]
          /\ force_rerun' = force
    /\ run' = run + 1
    /\ calls' = NoCalls
    /\ obs' = NoObs
    /\ report' = {}
    /\ pc' = "fetch"
    /\ UNCHANGED fs
    /\ UNCHANGED <<pathVars, fetchVars, anVars>>

InitAgreement == PipelineInit /\ PathInit /\ FetchIdle /\ AnalyzeIdle

NextAgreement ==
    \/ Plan
    \/ FetcherWrites
    \/ ModelerWrites
    \/ StartPlannedRun
    \/ FetchStage
    \/ TopicStage
    \/ TopicModelerBody
    \/ AnalyzeStage

SpecAgreement == InitAgreement /\ [][NextAgreement]_vars

-----------------------------------------------------------------------------
(* Stage dispositions of the current run, read off what main() printed *)
Printed(msg) == msg \in report
FetchDecided == obs.raw_at_fetch # "unset"
FetchAborted == Printed("Data fetching failed")
ReachedTopic == pc \in {"topic", "tm_body", "analyze"}
                \/ (pc = "done" /\ FetchDecided /\ ~FetchAborted)
TopicDecided == ReachedTopic /\ pc # "topic"
ReachedAnalyze == pc = "analyze"
                  \/ Printed("[Step 3/3] Analysis and Visualization")
                  \/ Printed("Analysis and visualization is disabled")
ReportedSuccess == Printed("All processes completed successfully")

\* C1: FETCH disposition. With force_rerun the Fetcher body is invoked whether
\* or not raw_path exists; without force_rerun and with raw_path present it is
\* not invoked in the run and the pipeline goes on to the next stage; without
\* force_rerun and without raw_path it is invoked.
C1_FetchDisposition ==
    /\ ~FetchDecided => calls.fetcher = 0
    /\ FetchDecided /\ force_rerun => calls.fetcher = 1
    /\ FetchDecided /\ ~force_rerun /\ obs.raw_at_fetch = "yes" =>
          /\ calls.fetcher = 0
          /\ obs.fetcher_returned = "unset"
          /\ ReachedTopic
          /\ Printed("skipping data fetching")
          /\ Printed("Data Fetching Complete")
          /\ ~FetchAborted
    /\ FetchDecided /\ ~force_rerun /\ obs.raw_at_fetch = "no" => calls.fetcher = 1

\* a forced run that fetched again although raw_path was there, after an
\* earlier run in which the fetch was skipped or ran
C1_Witness ==
    /\ run = 2
    /\ force_rerun
    /\ obs.raw_at_fetch = "yes"
    /\ calls.fetcher = 1

\* C2: pipeline abort on fetch failure. Once the Fetcher body was invoked and
\* returned no output, the run is over: TopicModeler and Analyzer were not
\* invoked, the Fetcher was invoked once only, the failure of the data
\* fetching step is reported and success is not.
C2_AbortOnFetchFailure ==
    obs.fetcher_returned = "none" =>
        /\ pc = "done"
        /\ calls = [fetcher |-> 1, topic_modeler |-> 0, analyzer |-> 0]
        /\ Printed("Data fetching failed")
        /\ ~ReportedSuccess
        /\ ~ReachedAnalyze
        /\ obs.processed_at_topic = "unset"

\* the fetch failed in a run with both later stages enabled and a processed
\* file left by an earlier run
C2_Witness ==
    /\ obs.fetcher_returned = "none"
    /\ config.topic_modeling_enabled
    /\ config.analysis_enabled
    /\ Exists(processed_data_path)
    /\ pc = "done"

\* C3: TOPIC_MODEL disposition in a run whose FETCH did not abort.
\* (a) disabled: TopicModeler not invoked, ANALYZE reached; (b) enabled, not
\* forced, processed_path present: not invoked, ANALYZE reached; (c) otherwise
\* with raw_path missing: the run ends, neither TopicModeler nor Analyzer
\* invoked; (d) otherwise TopicModeler is invoked once, and when it returns no
\* output the run ends without the Analyzer.
C3_TopicDisposition ==
    LET enabled == config.topic_modeling_enabled
        cached == ~force_rerun /\ obs.processed_at_topic = "yes"
    IN  /\ ~TopicDecided => calls.topic_modeler = 0
        /\ TopicDecided /\ ~enabled =>
              calls.topic_modeler = 0 /\ ReachedAnalyze
        /\ TopicDecided /\ enabled /\ cached =>
              calls.topic_modeler = 0 /\ ReachedAnalyze
        /\ TopicDecided /\ enabled /\ ~cached /\ obs.raw_at_topic = "no" =>
              /\ pc = "done"
              /\ calls.topic_modeler = 0
              /\ calls.analyzer = 0
              /\ ~ReachedAnalyze
              /\ ~ReportedSuccess
        /\ TopicDecided /\ enabled /\ ~cached /\ obs.raw_at_topic = "yes" =>
              \/ pc = "tm_body" /\ calls.topic_modeler = 0
              \/ /\ pc # "tm_body"
                 /\ calls.topic_modeler = 1
                 /\ obs.topic_modeler_returned = "none" =>
                       /\ pc = "done"
                       /\ calls.analyzer = 0
                       /\ ~ReachedAnalyze
                       /\ ~ReportedSuccess
                 /\ obs.topic_modeler_returned = "path" => ReachedAnalyze

\* the TopicModeler was invoked on a raw file that was gone by the time it
\* loaded it, and returned no output
C3_Witness ==
    /\ obs.topic_modeler_returned = "none"
    /\ obs.raw_at_topic = "yes"
    /\ config.analysis_enabled
    /\ calls.topic_modeler = 1
    /\ pc = "done"

\* the other three dispositions are reached as well
C3_WitnessBypassed ==
    TopicDecided /\ ~config.topic_modeling_enabled /\ pc = "done"
C3_WitnessSkipped ==
    TopicDecided /\ config.topic_modeling_enabled /\ ~force_rerun
    /\ obs.processed_at_topic = "yes" /\ pc = "done"
C3_WitnessRawMissing ==
    TopicDecided /\ config.topic_modeling_enabled /\ obs.raw_at_topic = "no"
    /\ obs.processed_at_topic = "no" /\ pc = "done"

\* C4: ANALYZE disposition. With analysis enabled the Analyzer is invoked
\* exactly when processed_path exists as the stage is reached, whatever
\* force_rerun and the TOPIC_MODEL disposition were; with processed_path
\* missing it is not invoked and the run still ends reporting success; with
\* analysis disabled it is never invoked.
C4_AnalyzeState ==
    /\ obs.processed_at_analyze = "unset" => calls.analyzer = 0
    /\ obs.processed_at_analyze # "unset" => config.analysis_enabled /\ pc = "done"
    /\ obs.processed_at_analyze = "yes" => calls.analyzer = 1
    /\ obs.processed_at_analyze = "no" =>
          /\ calls.analyzer = 0
          /\ Printed("Cannot perform analysis")
          /\ ReportedSuccess
          /\ ~Printed("Traceback")
    /\ pc = "done" /\ ReachedAnalyze /\ config.analysis_enabled =>
          obs.processed_at_analyze # "unset"
    /\ ~config.analysis_enabled => calls.analyzer = 0

\* C4, the frame: the ANALYZE stage leaves every data file as it was.
C4_AnalyzeDisposition ==
    /\ []C4_AnalyzeState
    /\ [][AnalyzeStage => DataFiles(fs') = DataFiles(fs)]_vars

\* analysis was asked for without a processed file, after a fetch that ran in
\* this run: the run ended normally and the raw file is still there
C4_Witness ==
    /\ obs.processed_at_analyze = "no"
    /\ pc = "done"
    /\ calls.fetcher = 1
    /\ Exists(raw_data_path)
    /\ ReportedSuccess

\* the Analyzer ran in a forced run with topic modeling disabled
C4_WitnessForced ==
    /\ obs.processed_at_analyze = "yes"
    /\ force_rerun
    /\ ~config.topic_modeling_enabled
    /\ calls.analyzer = 1

-----------------------------------------------------------------------------
(* Path derivation *)

S_ICLR_as_built ==
    <<"I", "C", "L", "R", "c", "c", "_", "2", "0", "2", "4", "_",
      "C", "o", "n", "f", "e", "r", "e", "n", "c", "e",
      "_", "p", "a", "p", "e", "r", "s", "_", "r", "e", "v", "i", "e", "w", "s",
      "_", "l", "i", "m", "i", "t", "5", "0", ".", "j", "s", "o", "n", "l">>

S_ICLR_as_claimed ==
    <<"I", "C", "L", "R", "_", "c", "c", "_", "2", "0", "2", "4", "_",
      "C", "o", "n", "f", "e", "r", "e", "n", "c", "e",
      "_", "p", "a", "p", "e", "r", "s", "_", "r", "e", "v", "i", "e", "w", "s",
      "_", "l", "i", "m", "i", "t", "5", "0", ".", "j", "s", "o", "n", "l">>

ExampleConfig == [conference_id |-> ICLR, limit |-> PyInt(50), fetch_reviews |-> TRUE]

\* spec.md, RunConfig: the limit, if present, is > 0
ValidRunConfig(cfg) == cfg.limit = None \/ cfg.limit.v > 0

IsDigit(c) == \E d \in 1..10 : DigitChars[d] = c

\* s is the decimal numeral of n
IsDecimalOf(s, n) ==
    /\ Len(s) >= 1
    /\ \A i \in 1..Len(s) : IsDigit(s[i])
    /\ Len(s) > 1 => s[1] # "0"
    /\ StrToInt(s) = n

\* the conference id without its dots, each slash turned into an underscore
DotsDroppedSlashesUnderscored(id) ==
    LET kept == SelectSeq(id, LAMBDA c : c # ".")
    IN  [i \in 1..Len(kept) |-> IF kept[i] = "/" THEN "_" ELSE kept[i]]

\* the conference id with every slash and every dot turned into an underscore
UnsafeCharsUnderscored(id) ==
    [i \in 1..Len(id) |-> IF id[i] \in {"/", "."} THEN "_" ELSE id[i]]

\* name = head, then "_limit" and the numeral of the limit iff wanted, then tail
HasLimitPart(name, head, wanted, n, tail) ==
    LET from == Len(head) + 1
        to == Len(name) - Len(tail)
        middle == SubSeq(name, from, to)
    IN  /\ Len(name) >= Len(head) + Len(tail)
        /\ SubSeq(name, 1, Len(head)) = head
        /\ SubSeq(name, to + 1, Len(name)) = tail
        /\ IF wanted
           THEN /\ Len(middle) > Len(S_limit)
                /\ SubSeq(middle, 1, Len(S_limit)) = S_limit
                /\ IsDecimalOf(SubSeq(middle, Len(S_limit) + 1, Len(middle)), n)
           ELSE middle = <<>>

\* C5 (as amended): the raw filename is the conference id with each "/"
\* replaced by "_" and each "." removed, then "_papers", then "_reviews" iff
\* fetch_reviews, then "_limit{N}" iff a non-zero limit N is given, then
\* ".jsonl"; the processed filename is the raw stem then "_with_topics.csv";
\* the example config yields ICLRcc_2024_Conference_papers_reviews_limit50.jsonl.
C5_PathDerivation ==
    p_pc # "config" =>
        LET raw == p_planned.raw.name
            head == DotsDroppedSlashesUnderscored(p_config.conference_id)
                    \o S_papers
                    \o (IF p_config.fetch_reviews THEN S_reviews ELSE <<>>)
            n == IF p_config.limit = None THEN 0 ELSE p_config.limit.v
        IN  /\ HasLimitPart(raw, head, p_config.limit # None /\ n # 0, n, S_jsonl)
            /\ p_planned.processed.name
                  = SubSeq(raw, 1, Len(raw) - Len(S_jsonl)) \o S_with_topics_csv
            /\ p_planned.raw.dir = "data/raw"
            /\ p_planned.processed.dir = "data/processed"
            /\ p_config = ExampleConfig => raw = S_ICLR_as_built

\* the planner has run on the example config
C5_Witness ==
    /\ p_pc = "planned"
    /\ p_config = ExampleConfig
    /\ p_planned.raw.name = S_ICLR_as_built

\* C5 as the spec states it: every path-unsafe character of the conference id
\* is replaced, "_limit{N}" is there iff a limit is present, and the example
\* config yields ICLR_cc_2024_Conference_papers_reviews_limit50.jsonl.
C5_AsClaimed ==
    p_pc # "config" /\ ValidRunConfig(p_config) =>
        LET raw == p_planned.raw.name
            head == UnsafeCharsUnderscored(p_config.conference_id)
                    \o S_papers
                    \o (IF p_config.fetch_reviews THEN S_reviews ELSE <<>>)
            n == IF p_config.limit = None THEN 0 ELSE p_config.limit.v
        IN  /\ HasLimitPart(raw, head, p_config.limit # None, n, S_jsonl)
            /\ p_config = ExampleConfig => raw = S_ICLR_as_claimed

-----------------------------------------------------------------------------
(* The fetcher *)

NonEmpty(outcome) == outcome.t = "ok" /\ outcome.notes # <<>>

\* the ids of the notes a query returned, as the strings the fetcher stores
IdsOf(outcome) == [i \in 1..Len(outcome.notes) |-> PyStr(outcome.notes[i].id)]

\* the papers the fetcher keeps of a query's result once the limit is applied
KeptOf(outcome, limit) ==
    LET ids == IdsOf(outcome)
    IN  IF limit # None /\ limit.v > 0 /\ limit.v < Len(ids)
        THEN SubSeq(ids, 1, limit.v) ELSE ids

WrittenIds(res) == [i \in 1..Len(res.df.rows) |-> res.df.rows[i]["id"]]

\* C6: fetch strategy fallback. A non-empty answer to the invitation query is
\* used and the venue-id query is not issued; when the invitation query is
\* empty or raises the venue-id query is issued and its answer used if
\* non-empty; the fetch returns no output and writes no file exactly when both
\* are empty or raise.
C6_FetchFallback ==
    f_pc = "returned" =>
        LET res == f_result
            limit == f_input.cfg.limit
        IN  /\ NonEmpty(f_input.primary) =>
                  /\ res.queries = <<"invitation">>
                  /\ res.wrote
                  /\ WrittenIds(res) = KeptOf(f_input.primary, limit)
            /\ ~NonEmpty(f_input.primary) =>
                  /\ res.queries = <<"invitation", "venueid">>
                  /\ NonEmpty(f_input.fallback) =>
                        /\ res.wrote
                        /\ WrittenIds(res) = KeptOf(f_input.fallback, limit)
            /\ (res.returned = None) <=>
                  (~NonEmpty(f_input.primary) /\ ~NonEmpty(f_input.fallback))
            /\ (res.returned = None) <=> ~res.wrote
            /\ res.wrote => res.returned = res.path

\* the invitation query raised, the venue-id query was issued and found
\* nothing: no output, no file
C6_Witness ==
    /\ f_pc = "returned"
    /\ f_input.primary = Raises
    /\ f_input.fallback = Returns(<<>>)
    /\ f_result.queries = <<"invitation", "venueid">>
    /\ f_result.returned = None
    /\ ~f_result.wrote

\* the fallback answer was used after the invitation query raised
C6_WitnessFallbackUsed ==
    /\ f_pc = "returned"
    /\ f_input.primary = Raises
    /\ NonEmpty(f_input.fallback)
    /\ f_result.wrote

\* C7: rate-limit pacing. Between every two consecutive get_notes requests of
\* the review-enrichment loop the fixed delay elapses, also when the earlier
\* of the two requests failed.
C7_PacedRequests ==
    f_pc = "returned" /\ f_input.cfg.fetch_reviews =>
        LET ev == f_result.events
        IN  \A i \in 1..Len(ev) : \A j \in 1..Len(ev) :
                (i < j /\ ev[i].e = "get_notes" /\ ev[j].e = "get_notes") =>
                    \E k \in (i + 1)..(j - 1) : ev[k].e = "sleep"

\* what the enrichment leaves on a paper whose forum holds no decision and no
\* rating
DefaultEnrichment ==
    [decision |-> PyStr(S_NA), review_ratings |-> PyList(<<>>), avg_rating |-> None]

Requests(res) == SelectSeq(res.events, LAMBDA ev : ev.e = "get_notes")

\* C8: partial enrichment failure. With fetch_reviews a lookup is issued for
\* every paper kept after the limit; a failed lookup does not stop the loop,
\* the paper is still in the output, and it carries the default enrichment
\* fields: decision "N/A", no ratings, no average rating.
C8_PartialEnrichment ==
    f_pc = "returned" /\ f_input.cfg.fetch_reviews /\ f_result.wrote =>
        LET res == f_result
            rows == res.df.rows
        IN  /\ Len(Requests(res)) = Len(rows)
            /\ \A i \in 1..Len(rows) : PyStr(Requests(res)[i].forum) = rows[i]["id"]
            /\ WrittenIds(res) =
                  KeptOf(IF NonEmpty(f_input.primary)
                         THEN f_input.primary ELSE f_input.fallback,
                         f_input.cfg.limit)
            /\ \A i \in 1..Len(rows) :
                  f_input.lookups[i] = Raises =>
                      /\ DOMAIN DefaultEnrichment \subseteq res.df.columns
                      /\ \A k \in DOMAIN DefaultEnrichment :
                            rows[i][k] = DefaultEnrichment[k]

-----------------------------------------------------------------------------
(* The analyzer *)

RetainedRows == SelectSeq(a_input.df_with_topics.rows, LAMBDA r : r["Topic"] # -1)

Keywords == <<S_oral, S_spotlight, S_poster_lc, S_reject>>

\* the first of Oral, Spotlight, Poster, Reject whose name occurs in the
\* decision whatever its case, N/A when none does or there is no decision
ClassOf(row) ==
    IF "decision" \notin DOMAIN row THEN "N/A"
    ELSE IF row["decision"].t # "str" THEN "N/A"
    ELSE LET hits == {k \in 1..4 : Contains(Lower(row["decision"].s), Keywords[k])}
         IN  IF hits = {} THEN "N/A"
             ELSE decision_types[CHOOSE k \in hits : \A h \in hits : k <= h]

\* C9: decision classification is total and priority-ordered. Every record
\* kept after outlier removal is classified into one of Oral, Spotlight,
\* Poster, Reject, N/A, the first match in that order winning, and a record
\* without a decision is classified N/A; "Oral (Reject appeal overturned)" is
\* classified Oral.
C9_ClassificationTotal ==
    (a_pc = "returned" /\ RetainedRows # <<>>
     /\ \A i \in 1..Len(RetainedRows) : RetainedRows[i]["id"] # NaN) =>
        /\ a_result.status = "ok"
        /\ Len(a_result.clean_decision) = Len(RetainedRows)
        /\ \A i \in 1..Len(RetainedRows) :
              /\ a_result.clean_decision[i] = ClassOf(RetainedRows[i])
              /\ RetainedRows[i]["decision"] = PyStr(S_overturned) =>
                    a_result.clean_decision[i] = "Oral"

\* what holds of the code: the same, for a file that has a decision column
C9_ClassificationWithColumn ==
    (a_pc = "returned" /\ RetainedRows # <<>>
     /\ "decision" \in a_input.df_with_topics.columns) =>
        /\ a_result.status = "ok"
        /\ \A i \in 1..Len(RetainedRows) :
              a_result.clean_decision[i] = ClassOf(RetainedRows[i])

\* C10: acceptance rate. For every per-topic row the analyzer produces, the
\* rate is (Oral+Spotlight+Poster) over the sum of the five decision counts,
\* that sum is the topic's paper_count after outlier removal, the rate lies
\* in [0,1], and it is 0 when the five counts are all 0.
C10_AcceptanceRate ==
    a_pc = "returned" /\ a_result.status = "ok" =>
        \A k \in 1..Len(a_result.analysis_df) :
            LET agg == a_result.analysis_df[k]
                rate == agg.acceptance_rate
                accepted == agg.counts["Oral"] + agg.counts["Spotlight"]
                            + agg.counts["Poster"]
                total == accepted + agg.counts["Reject"] + agg.counts["N/A"]
                papers == {i \in 1..Len(RetainedRows) :
                              /\ RetainedRows[i]["Topic"] = agg.Topic
                              /\ RetainedRows[i]["id"] # NaN}
            IN  /\ agg.Topic # -1
                /\ total = agg.paper_count
                /\ agg.paper_count = Cardinality(papers)
                /\ rate.t = "ratio"
                /\ rate.den > 0
                /\ 0 <= rate.num /\ rate.num <= rate.den
                /\ total > 0 => rate.num = accepted /\ rate.den = agg.paper_count
                /\ total = 0 => rate.num = 0

\* a topic whose five counts are all 0 (its rows carry no id), rate 0
C10_Witness ==
    /\ a_pc = "returned"
    /\ a_result.status = "ok"
    /\ \E k \in 1..Len(a_result.analysis_df) :
          LET agg == a_result.analysis_df[k]
          IN  /\ \A c \in DOMAIN agg.counts : agg.counts[c] = 0
              /\ agg.paper_count = 0
              /\ agg.acceptance_rate.num = 0

\* a topic with one accepted and one undecided paper, rate 1/2
C10_WitnessHalf ==
    /\ a_pc = "returned"
    /\ a_result.status = "ok"
    /\ \E k \in 1..Len(a_result.analysis_df) :
          LET agg == a_result.analysis_df[k]
          IN  /\ agg.counts["N/A"] = 1
              /\ agg.paper_count = 2
              /\ agg.acceptance_rate.num = 1
              /\ agg.acceptance_rate.den = 2

-----------------------------------------------------------------------------
(* Ownership of the data files *)

\* the files a step creates or overwrites
Touched == {p \in DOMAIN fs' : p \notin DOMAIN fs \/ fs'[p] # fs[p]}

\* a step in which the Fetcher body is invoked and returns a path
FetcherSucceeds ==
    FetchStage /\ calls'.fetcher = calls.fetcher + 1 /\ obs'.fetcher_returned = "path"

\* a step in which the Fetcher body is invoked and returns None
FetcherFails ==
    FetchStage /\ calls'.fetcher = calls.fetcher + 1 /\ obs'.fetcher_returned = "none"

\* a step in which the TopicModeler body is invoked and returns a path
ModelerSucceeds ==
    TopicModelerBody /\ obs'.topic_modeler_returned = "path"

\* a step in which a stage is skipped on a cache hit
StageSkipped ==
    \/ FetchStage /\ Printed("skipping data fetching")'
    \/ TopicStage /\ Printed("skipping topic modeling")'

\* a step that ends the run before its last stage
RunAborts ==
    /\ FetchStage \/ TopicStage \/ TopicModelerBody
    /\ pc' = "done"

\* C11: artifact ownership. In every step of every run, a file under
\* data/raw is created or overwritten only if the step is a Fetcher invocation
\* that returns a path, and then it is that run's raw_path; a file under
\* data/processed only if the step is a TopicModeler invocation that returns
\* a path, and then it is that run's processed_path; the ANALYZE stage, the
\* start of a run, a skipped stage, a Fetcher invocation that returns None
\* (forced or not, older raw file or not) and a step that aborts the run
\* leave every file under data/raw and data/processed as it was.
C11_ArtifactOwnership ==
    [][ /\ \A p \in Touched :
             /\ p.dir = data_raw_dir => FetcherSucceeds /\ p = raw_data_path
             /\ p.dir = data_processed_dir =>
                    ModelerSucceeds /\ p = processed_data_path
        /\ AnalyzeStage \/ StartRun \/ StageSkipped \/ FetcherFails \/ RunAborts =>
             DataFiles(fs') = DataFiles(fs)
      ]_vars

\* a forced second run whose Fetcher returned None: the raw and the processed
\* file of the first run are both still there as the first run wrote them
C11_Witness ==
    /\ run = 2
    /\ force_rerun
    /\ obs.raw_at_fetch = "yes"
    /\ obs.fetcher_returned = "none"
    /\ pc = "done"
    /\ Exists(raw_data_path) /\ fs[raw_data_path] = 1
    /\ Exists(processed_data_path) /\ fs[processed_data_path] = 1

\* the Analyzer wrote its charts and tables in a run that had rewritten the
\* raw and the processed file, and both still carry that run's stamp
C11_WitnessAnalyzed ==
    /\ run = 2
    /\ calls = [fetcher |-> 1, topic_modeler |-> 1, analyzer |-> 1]
    /\ AnalyzerOutputs(output_dir) \subseteq DOMAIN fs
    /\ \A p \in AnalyzerOutputs(output_dir) : fs[p] = 2
    /\ Exists(raw_data_path) /\ fs[raw_data_path] = 2
    /\ Exists(processed_data_path) /\ fs[processed_data_path] = 2

-----------------------------------------------------------------------------
(* Agreement of the planned paths with the paths the stages write *)

\* the Fetcher body was invoked in the current run and returned a path
FetchSucceeded == obs.fetcher_returned = "path"

\* the TopicModeler body was invoked in the current run and returned a path
ModelerSucceeded == obs.topic_modeler_returned = "path"

\* C12: planner/stage path agreement. For every conference id, fetch_reviews
\* value and limit (absent, zero or positive) the path the Fetcher writes and
\* returns equals the planned raw path, and the path the TopicModeler writes
\* for that raw path equals the planned processed path. Hence, when nobody
\* removes files: after a Fetcher invocation that returned a path raw_path
\* holds what this run wrote; raw_path exists whenever the TOPIC_MODEL stage
\* is evaluated, the "raw input missing" abort is never taken and the
\* TopicModeler never returns None; after a TopicModeler invocation
\* processed_path holds what this run wrote; and with topic modeling enabled
\* processed_path exists whenever the ANALYZE stage is evaluated.
C12_PathAgreement ==
    /\ p_pc \in {"fetched", "modelled"} => p_fetched = p_planned.raw
    /\ p_pc = "modelled" => p_modelled = p_planned.processed
    /\ FetchSucceeded => Exists(raw_data_path) /\ fs[raw_data_path] = run
    /\ ReachedTopic => Exists(raw_data_path)
    /\ obs.raw_at_topic # "no"
    /\ ~Printed("Cannot perform topic modeling")
    /\ obs.topic_modeler_returned # "none"
    /\ ModelerSucceeded =>
          Exists(processed_data_path) /\ fs[processed_data_path] = run
    /\ ReachedAnalyze /\ config.topic_modeling_enabled =>
          Exists(processed_data_path)
    /\ config.topic_modeling_enabled => obs.processed_at_analyze # "no"

\* a run with limit 0 in which the Fetcher, the TopicModeler and the Analyzer
\* were each invoked, one on the file the other had written
C12_Witness ==
    /\ p_pc = "modelled"
    /\ p_config.limit = PyInt(0)
    /\ config.limit = PyInt(0)
    /\ calls = [fetcher |-> 1, topic_modeler |-> 1, analyzer |-> 1]
    /\ FetchSucceeded /\ ModelerSucceeded
    /\ obs.raw_at_topic = "yes"
    /\ obs.processed_at_analyze = "yes"
    /\ ReportedSuccess

\* a second run that skipped FETCH and TOPIC_MODEL on the files of the first
\* and analysed the processed file it found
C12_WitnessSkipped ==
    /\ run = 2
    /\ Printed("skipping data fetching")
    /\ Printed("skipping topic modeling")
    /\ obs.processed_at_analyze = "yes"
    /\ fs[raw_data_path] = 1
    /\ fs[processed_data_path] = 1

====
